---- MODULE Spec2Model ----
(***************************************************************************)
(* Model of transcribe_audio_sippulse.py: the TalkIntelTranscriber class   *)
(* (convert_audio_with_ffmpeg, transcribe_file, get_unique_files,          *)
(* process_directory, send_to_webhook) and main().                         *)
(*                                                                         *)
(* A path is a sequence of one-character strings, so that pathlib's stem   *)
(* and suffix and Python's string order are computed as the code computes  *)
(* them.  Paths are written relative to the scanned directory: the common  *)
(* directory prefix changes neither stem, suffix nor order.                *)
(***************************************************************************)
EXTENDS Integers, Sequences, FiniteSets, TLC

\* ------------------------------------------------------------------ bounds

\* Largest number of files a directory holds in a run of main().
MaxDisk == 3
\* Largest number of files a directory holds when only discovery is checked.
MaxScan == 3
\* Largest value given to --max-files.
MaxCap == 2

\* ------------------------------------------------------- characters, paths

\* Code point of the characters that occur in the modelled paths.
Ord(c) ==
  CASE c = "." -> 46 [] c = "/" -> 47 [] c = "3" -> 51
    [] c = "A" -> 65 [] c = "B" -> 66 [] c = "V" -> 86 [] c = "W" -> 87
    [] c = "a" -> 97 [] c = "b" -> 98 [] c = "c" -> 99 [] c = "f" -> 102
    [] c = "g" -> 103 [] c = "l" -> 108 [] c = "m" -> 109 [] c = "o" -> 111
    [] c = "p" -> 112 [] c = "s" -> 115 [] c = "t" -> 116 [] c = "v" -> 118
    [] c = "w" -> 119 [] c = "x" -> 120

\* str.lower() on one character.
LowerChar(c) ==
  CASE c = "A" -> "a" [] c = "B" -> "b" [] c = "V" -> "v" [] c = "W" -> "w"
    [] OTHER -> c

\* str.lower()
Lower(s) == [k \in 1..Len(s) |-> LowerChar(s[k])]

\* Python's order on str: by code point, a proper prefix first.
RECURSIVE StrLess(_, _)
StrLess(s, t) ==
  IF t = <<>> THEN FALSE
  ELSE IF s = <<>> THEN TRUE
  ELSE IF Ord(Head(s)) # Ord(Head(t)) THEN Ord(Head(s)) < Ord(Head(t))
  ELSE StrLess(Tail(s), Tail(t))

\* str.rfind(c): the last position of c in s, 0 when there is none
\* (positions count from 1 here, from 0 in Python).
RFind(s, c) ==
  LET at == {k \in 1..Len(s) : s[k] = c}
  IN  IF at = {} THEN 0 ELSE CHOOSE k \in at : \A j \in at : j <= k

\* PurePath.name: what follows the last separator.
Name(p) == SubSeq(p, RFind(p, "/") + 1, Len(p))

\* PurePath.suffix: the name from its last dot on, unless that dot starts or
\* ends the name.
Suffix(p) ==
  LET n == Name(p)
      d == RFind(n, ".")
  IN  IF 1 < d /\ d < Len(n) THEN SubSeq(n, d, Len(n)) ELSE <<>>

\* PurePath.stem: the name without its suffix.
Stem(p) ==
  LET n == Name(p)
      d == RFind(n, ".")
  IN  IF 1 < d /\ d < Len(n) THEN SubSeq(n, 1, d - 1) ELSE n

\* audio_extensions of get_unique_files, in priority order.
audio_extensions ==
  << <<".", "m", "p", "3">>, <<".", "w", "a", "v">>,
     <<".", "f", "l", "a", "c">>, <<".", "m", "4", "a">>,
     <<".", "o", "g", "g">>, <<".", "w", "m", "a">> >>

\* extension_priority.get(extension, 999)
extension_priority(ext) ==
  LET at == {k \in 1..Len(audio_extensions) : audio_extensions[k] = ext}
  IN  IF at = {} THEN 999 ELSE (CHOOSE k \in at : TRUE) - 1

\* file_path.suffix.lower() in audio_extensions
IsAudio(p) ==
  \E k \in 1..Len(audio_extensions) : audio_extensions[k] = Lower(Suffix(p))

\* ------------------------------------------------------------- discovery

\* The files a scanned directory may hold.
Universe ==
  { <<"a", ".", "m", "p", "3">>,
    <<"a", ".", "w", "a", "v">>,
    <<"a", ".", "f", "l", "a", "c">>,
    <<"b", ".", "W", "A", "V">>,
    <<"s", "/", "b", ".", "w", "a", "v">>,
    <<"B", ".", "o", "g", "g">>,
    <<"c", ".", "t", "x", "t">> }

\* The files a directory may hold in a run of main(): a duplicate pair, an
\* upper-case extension and an upper-case stem.
RunUniverse ==
  { <<"a", ".", "m", "p", "3">>,
    <<"a", ".", "w", "a", "v">>,
    <<"b", ".", "W", "A", "V">>,
    <<"B", ".", "o", "g", "g">> }

\* The sequences without repetition of at most n members of S: the orders in
\* which rglob may yield the files of a directory.
Range(s) == {s[k] : k \in 1..Len(s)}

RECURSIVE Listings(_, _)
Listings(S, n) ==
  IF n = 0 THEN {<<>>}
  ELSE LET shorter == Listings(S, n - 1)
       IN  shorter \cup
           UNION { {Append(l, f) : f \in S \ Range(l)} :
                   l \in {x \in shorter : Len(x) = n - 1} }

\* One entry of a file_groups list (lines 292-296).
FileEntry(p) ==
  [path |-> p, extension |-> Lower(Suffix(p)),
   priority |-> extension_priority(Lower(Suffix(p)))]

\* file_groups after the loop of lines 284-296: a dict keeps its keys in
\* insertion order, so it is a sequence of [base_name, files], one per stem in
\* first-seen order, each files list in scan order.
RECURSIVE GroupFiles(_, _)
GroupFiles(scan, groups) ==
  IF scan = <<>> THEN groups
  ELSE LET p == Head(scan)
           at == {k \in 1..Len(groups) : groups[k].base_name = Stem(p)}
       IN  IF ~IsAudio(p) THEN GroupFiles(Tail(scan), groups)
           ELSE IF at = {}
           THEN GroupFiles(Tail(scan),
                  Append(groups, [base_name |-> Stem(p), files |-> <<FileEntry(p)>>]))
           ELSE LET k == CHOOSE k \in at : TRUE
                IN  GroupFiles(Tail(scan),
                      [groups EXCEPT ![k].files = Append(@, FileEntry(p))])

\* Insertion of e into a list sorted by priority, after the entries of equal
\* priority: list.sort is stable.
RECURSIVE InsertByPriority(_, _)
InsertByPriority(sorted, e) ==
  IF sorted = <<>> THEN <<e>>
  ELSE IF e.priority < Head(sorted).priority THEN <<e>> \o sorted
  ELSE <<Head(sorted)>> \o InsertByPriority(Tail(sorted), e)

RECURSIVE SortFrom(_, _)
SortFrom(files, sorted) ==
  IF files = <<>> THEN sorted
  ELSE SortFrom(Tail(files), InsertByPriority(sorted, Head(files)))

SortByPriority_Unsorted(files) == files

\* files.sort(key=lambda x: x['priority']) (line 302)
SortByPriority(files) == SortFrom(files, <<>>)

RECURSIVE InsertPath(_, _)
InsertPath(sorted, p) ==
  IF sorted = <<>> THEN <<p>>
  ELSE IF StrLess(p, Head(sorted)) THEN <<p>> \o sorted
  ELSE <<Head(sorted)>> \o InsertPath(Tail(sorted), p)

RECURSIVE SortPathsFrom(_, _)
SortPathsFrom(paths, sorted) ==
  IF paths = <<>> THEN sorted
  ELSE SortPathsFrom(Tail(paths), InsertPath(sorted, Head(paths)))

\* unique_files.sort() (line 312)
SortPaths(paths) == SortPathsFrom(paths, <<>>)

\* The duplicates line that line 309 prints for a group of more than one file.
DuplicateLine(base_name, files) ==
  [base_name |-> base_name,
   dropped |-> [k \in 1..(Len(files) - 1) |-> files[k + 1].extension],
   using |-> files[1].extension]

\* The loop of lines 299-309 over the groups: the best path of each group, and
\* the duplicates lines printed.
RECURSIVE SelectBest(_, _, _)
SelectBest(groups, picked, log) ==
  IF groups = <<>> THEN [files |-> picked, log |-> log]
  ELSE LET files == SortByPriority(Head(groups).files)
       IN  SelectBest(Tail(groups), Append(picked, files[1].path),
             IF Len(files) > 1
             THEN Append(log, DuplicateLine(Head(groups).base_name, files))
             ELSE log)

\* get_unique_files: [files |-> the list returned, log |-> the duplicates
\* lines printed].  A directory that does not exist yields the empty list.
get_unique_files(exists, scan) ==
  IF ~exists THEN [files |-> <<>>, log |-> <<>>]
  ELSE LET best == SelectBest(GroupFiles(scan, <<>>), <<>>, <<>>)
       IN  [files |-> SortPaths(best.files), log |-> best.log]

\* --------------------------------------------------------- values, outcomes

\* Python's None; the JSON body null parses to it.
PyNone == [type |-> "NoneType", len |-> 0]

\* The values response.json() may return: a transcription object, the empty
\* object, a non-empty array, and null.
Bodies ==
  { [type |-> "dict", len |-> 3], [type |-> "dict", len |-> 0],
    [type |-> "list", len |-> 1], PyNone }

\* Python's truth value of a parsed JSON value or a list: None and the empty
\* containers are false.
Truthy(v) == v.type # "NoneType" /\ v.len > 0

\* How the transcoder run of lines 59-64 may end.
ConvertOutcomes ==
  {"ok", "nonzero", "TimeoutExpired", "FileNotFoundError", "Exception"}

\* Whether the branch of convert_audio_with_ffmpeg taken on outcome o removes
\* the output file: lines 74-75 (nonzero exit), 80-81 (timeout) and 88-89
\* (another exception) do, the FileNotFoundError handler of lines 83-85 does
\* not, and success keeps the file for the caller.
ConvertUnlinks(o) == o \in {"nonzero", "TimeoutExpired", "Exception"}

\* How the upload of lines 209-248 may end: HTTP 200 with a JSON body, HTTP 200
\* with a body response.json() rejects, another status, an exception of
\* requests, or any other exception.
UploadOutcomes ==
  {[kind |-> "http_200", body |-> b] : b \in Bodies} \cup
  {[kind |-> k, body |-> PyNone] :
     k \in {"invalid_json", "http_error", "RequestException", "Exception"}}

NoResponse == [kind |-> "none", body |-> PyNone]

\* The exception class the try body of lines 209-248 raises on outcome o.
UploadRaises(o) ==
  CASE o.kind = "RequestException" -> "RequestException"
    [] o.kind \in {"Exception", "invalid_json"} -> "Exception"
    [] OTHER -> "none"

\* The exception classes transcribe_file's except clauses catch (lines 250, 256).
TranscribeCatches_OnlyRequests == {"RequestException"}

TranscribeCatches == {"RequestException", "Exception"}

\* Whether the path of transcribe_file taken on outcome o unlinks the converted
\* file when it exists: lines 239-240, 246-247, 253-254, 259-260.
UploadUnlinks_NotOnError(o) == o.kind # "http_error"

UploadUnlinks(o) == o.kind \in
  {"http_200", "http_error", "RequestException", "Exception", "invalid_json"}

\* What transcribe_file returns on outcome o (lines 241, 248, 255, 261).
UploadReturns(o) == IF o.kind = "http_200" THEN o.body ELSE PyNone

\* How the POST of lines 391-396 may end.
WebhookOutcomes == {"http_200", "http_error", "Exception"}

\* The exception classes send_to_webhook's except clause catches (line 406).
WebhookCatches_None == {}

WebhookCatches == {"Exception"}

\* The request of lines 157-207 and 218-230: use_preset puts the parameters in
\* the URL and passes params=None, otherwise they are passed as params.  Both
\* branches build insights and anonymize from the same literals (lines 122-155
\* and 165-198); the fields name the JSON text json.dumps makes of them, which
\* the URL carries percent-encoded by quote and params carries encoded by
\* requests.
BuildRequest(file, preset) ==
  [file |-> file,
   path |-> "/asr/transcribe",
   shape |-> IF preset THEN "url" ELSE "params",
   model |-> "pulse-precision", language |-> "pt",
   response_format |-> "diarization",
   insights |-> "json.dumps(insights)",
   anonymize |-> "json.dumps(anonymize)"]

\* ------------------------------------------------------------------ state

VARIABLES
  args,            \* the parsed command line
  dir_exists,      \* os.path.exists(directory)
  scan,            \* the files of the directory, in the order rglob yields them
  pc,              \* where the run is
  unique_files,    \* process_directory's (or main's) unique_files
  dup_log,         \* the duplicates lines get_unique_files printed
  i,               \* process_directory's loop index
  audio_file,      \* the file in transcribe_file
  use_preset,      \* transcribe_file's use_preset
  converted_file,  \* transcribe_file's converted_file: a temp file id, 0 for None
  result,          \* what transcribe_file returned
  results,         \* process_directory's results
  tmp_files,       \* the temp files that exist
  unlinked,        \* per temp file created, how many times it was unlinked
  posts,           \* the transcription requests sent
  hooks,           \* the send_to_webhook calls and how each ended
  sleeps,          \* the time.sleep(2) calls made
  started,         \* the files whose pipeline has begun
  finished,        \* the files whose pipeline has ended
  response,        \* how the upload of the current file ended
  convert_outcome, \* how the conversion of the current file ended
  any_ok,          \* some upload of the batch answered 200 with a JSON body
  output_file      \* the results file main wrote

vars ==
  << args, dir_exists, scan, pc, unique_files, dup_log, i, audio_file,
     use_preset, converted_file, result, results, tmp_files, unlinked, posts,
     hooks, sleeps, started, finished, response, convert_outcome, any_ok,
     output_file >>

NoFile == <<>>

\* --max-files: not given (None), or an integer.
MaxFilesArgs ==
  {[given |-> FALSE, n |-> 0]} \cup {[given |-> TRUE, n |-> k] : k \in 0..MaxCap}

\* Python's truth value of max_files (line 336): None and 0 are false.
MaxFilesTruthy(m) == m.given /\ m.n # 0

Args ==
  [list_files : BOOLEAN, test : BOOLEAN, no_preset : BOOLEAN,
   webhook : BOOLEAN, max_files : MaxFilesArgs]

InitRest ==
  /\ pc = "main"
  /\ unique_files = <<>>
  /\ dup_log = <<>>
  /\ i = 0
  /\ audio_file = NoFile
  /\ use_preset = TRUE
  /\ converted_file = 0
  /\ result = PyNone
  /\ results = <<>>
  /\ tmp_files = {}
  /\ unlinked = <<>>
  /\ posts = <<>>
  /\ hooks = <<>>
  /\ sleeps = 0
  /\ started = <<>>
  /\ finished = <<>>
  /\ response = NoResponse
  /\ convert_outcome = "none"
  /\ any_ok = FALSE
  /\ output_file = [written |-> FALSE, content |-> <<>>]

Init ==
  /\ args \in Args
  /\ \/ dir_exists = TRUE /\ scan \in Listings(RunUniverse, MaxDisk)
     \/ dir_exists = FALSE /\ scan = <<>>
  /\ InitRest

\* ---------------------------------------------------------------- actions

Min(a, b) == IF a < b THEN a ELSE b

\* unique_files[:max_files] for max_files >= 0 (line 337).
Take(files, n) == SubSeq(files, 1, Min(n, Len(files)))

\* What process_directory iterates over: the unique files, cut to max_files
\* when max_files is truthy (lines 336-338).
Truncate(files, m) == IF MaxFilesTruthy(m) THEN Take(files, m.n) ELSE files

\* The sort key of line 460: (0 if x.endswith('.mp3') else 1, x).
EndsWithMp3(p) ==
  Len(p) >= 4 /\ SubSeq(p, Len(p) - 3, Len(p)) = <<".", "m", "p", "3">>

TestKeyLess(p, q) ==
  LET kp == IF EndsWithMp3(p) THEN 0 ELSE 1
      kq == IF EndsWithMp3(q) THEN 0 ELSE 1
  IN  kp < kq \/ (kp = kq /\ StrLess(p, q))

\* The audio files main's test mode finds (lines 453-457).
TestCandidates == IF dir_exists THEN {p \in Range(scan) : IsAudio(p)} ELSE {}

\* audio_files[0] after the sort of line 460.
TestFile ==
  CHOOSE p \in TestCandidates : \A q \in TestCandidates \ {p} : TestKeyLess(p, q)

\* Where a run goes when transcribe_file has returned: test mode only prints
\* (lines 468-479), process_directory looks at the result (line 348).
AfterTranscribe == IF args.test THEN "done" ELSE "record"

\* main with --list-files (lines 432-443).
ListFiles ==
  /\ pc = "main"
  /\ args.list_files
  /\ unique_files' = get_unique_files(dir_exists, scan).files
  /\ dup_log' = get_unique_files(dir_exists, scan).log
  /\ pc' = "done"
  /\ UNCHANGED << args, dir_exists, scan, i, audio_file, use_preset,
                  converted_file, result, results, tmp_files, unlinked, posts,
                  hooks, sleeps, started, finished, response, convert_outcome,
                  any_ok, output_file >>

\* main with --test (lines 445-481), up to the call of transcribe_file.
TestMode ==
  /\ pc = "main"
  /\ ~args.list_files
  /\ args.test
  /\ IF TestCandidates = {}
     THEN /\ pc' = "done"
          /\ UNCHANGED << audio_file, use_preset >>
     ELSE /\ pc' = "convert"
          /\ audio_file' = TestFile
          /\ use_preset' = ~args.no_preset
  /\ UNCHANGED << args, dir_exists, scan, unique_files, dup_log, i,
                  converted_file, result, results, tmp_files, unlinked, posts,
                  hooks, sleeps, started, finished, response, convert_outcome,
                  any_ok, output_file >>

\* main's call of process_directory (lines 484-488) and process_directory up
\* to its loop (lines 328-341).  transcribe_file is called with its default
\* use_preset=True (line 347).
ProcessDirectory ==
  /\ pc = "main"
  /\ ~args.list_files
  /\ ~args.test
  /\ LET found == get_unique_files(dir_exists, scan)
         files == IF found.files = <<>> THEN <<>>
                  ELSE Truncate(found.files, args.max_files)
     IN  /\ unique_files' = files
         /\ dup_log' = found.log
         /\ IF files = <<>>
            THEN /\ pc' = "return"
                 /\ UNCHANGED << i, audio_file >>
            ELSE /\ pc' = "convert"
                 /\ i' = 1
                 /\ audio_file' = files[1]
  /\ use_preset' = TRUE
  /\ results' = <<>>
  /\ UNCHANGED << args, dir_exists, scan, converted_file, result, tmp_files,
                  unlinked, posts, hooks, sleeps, started, finished, response,
                  convert_outcome, any_ok, output_file >>

NormalizationFailed_Never(file) == FALSE

\* transcribe_file's test of the converted file (line 109): `not converted_file`,
\* true of None.
NormalizationFailed(file) == file = 0

\* transcribe_file up to line 111: convert_audio_with_ffmpeg creates a temp
\* file (lines 41-42), runs the transcoder, and returns the file or None.
ConvertAudio ==
  /\ pc = "convert"
  /\ \E o \in ConvertOutcomes :
       LET id == Len(unlinked) + 1
           removed == ConvertUnlinks(o)
       IN  /\ convert_outcome' = o
           /\ tmp_files' = IF removed THEN tmp_files ELSE tmp_files \cup {id}
           /\ unlinked' = Append(unlinked, IF removed THEN 1 ELSE 0)
           /\ converted_file' = IF o = "ok" THEN id ELSE 0
           /\ pc' = IF NormalizationFailed(IF o = "ok" THEN id ELSE 0)
                    THEN AfterTranscribe ELSE "upload"
           /\ finished' = IF o # "ok" /\ args.test
                          THEN Append(finished, audio_file) ELSE finished
  /\ started' = Append(started, audio_file)
  /\ result' = PyNone
  /\ response' = NoResponse
  /\ UNCHANGED << args, dir_exists, scan, unique_files, dup_log, i, audio_file,
                  use_preset, results, posts, hooks, sleeps, any_ok,
                  output_file >>

\* transcribe_file from line 113 on: the request is built and sent, and every
\* path that returns unlinks the converted file if it exists.
TranscribeUpload ==
  /\ pc = "upload"
  /\ posts' = Append(posts, BuildRequest(audio_file, use_preset))
  /\ \E o \in UploadOutcomes :
       IF UploadRaises(o) # "none" /\ UploadRaises(o) \notin TranscribeCatches
       THEN /\ pc' = "crashed"
            /\ UNCHANGED << result, response, tmp_files, unlinked, any_ok,
                            finished >>
       ELSE LET unlink == UploadUnlinks(o) /\ converted_file \in tmp_files
            IN  /\ tmp_files' = IF unlink THEN tmp_files \ {converted_file}
                                ELSE tmp_files
                /\ unlinked' = IF unlink
                               THEN [unlinked EXCEPT ![converted_file] = @ + 1]
                               ELSE unlinked
                /\ result' = UploadReturns(o)
                /\ response' = o
                /\ any_ok' = (any_ok \/ o.kind = "http_200")
                /\ pc' = AfterTranscribe
                /\ finished' = IF args.test THEN Append(finished, audio_file)
                               ELSE finished
  /\ UNCHANGED << args, dir_exists, scan, unique_files, dup_log, i, audio_file,
                  use_preset, converted_file, results, hooks, sleeps, started,
                  convert_outcome, output_file >>

\* process_directory, lines 348-356: a truthy result is appended, and sent to
\* the webhook when one is given.
RecordResult ==
  /\ pc = "record"
  /\ IF Truthy(result)
     THEN /\ results' = Append(results,
                          [file |-> audio_file, transcription |-> result])
          /\ pc' = IF args.webhook THEN "webhook" ELSE "next"
     ELSE /\ results' = results
          /\ pc' = "next"
  /\ UNCHANGED << args, dir_exists, scan, unique_files, dup_log, i, audio_file,
                  use_preset, converted_file, result, tmp_files, unlinked,
                  posts, hooks, sleeps, started, finished, response,
                  convert_outcome, any_ok, output_file >>

\* send_to_webhook (lines 377-408).  The payload is built with
\* transcription_data.get, which a value that is no dict does not have: the
\* AttributeError is raised inside the try, before any POST.
SendToWebhook ==
  /\ pc = "webhook"
  /\ \E o \in WebhookOutcomes :
       LET posted == result.type = "dict"
           ended == IF posted THEN o ELSE "Exception"
       IN  IF ended = "Exception" /\ "Exception" \notin WebhookCatches
           THEN /\ pc' = "crashed"
                /\ hooks' = hooks
           ELSE /\ pc' = "next"
                /\ hooks' = Append(hooks, [file |-> audio_file,
                                           posted |-> posted, outcome |-> ended])
  /\ UNCHANGED << args, dir_exists, scan, unique_files, dup_log, i, audio_file,
                  use_preset, converted_file, result, results, tmp_files,
                  unlinked, posts, sleeps, started, finished, response,
                  convert_outcome, any_ok, output_file >>

\* The rate-limit condition of line 359.
ShouldSleep_Always(idx, n) == TRUE

ShouldSleep(idx, n) == idx < n

\* process_directory, lines 358-361 and the loop's step: the pipeline of file i
\* has ended; unless it was the last, sleep and go on with the next file.
RateLimit ==
  /\ pc = "next"
  /\ finished' = Append(finished, audio_file)
  /\ sleeps' = IF ShouldSleep(i, Len(unique_files)) THEN sleeps + 1 ELSE sleeps
  /\ IF i < Len(unique_files)
     THEN /\ i' = i + 1
          /\ audio_file' = unique_files[i + 1]
          /\ pc' = "convert"
     ELSE /\ pc' = "return"
          /\ UNCHANGED << i, audio_file >>
  /\ UNCHANGED << args, dir_exists, scan, unique_files, dup_log, use_preset,
                  converted_file, result, results, tmp_files, unlinked, posts,
                  hooks, started, response, convert_outcome, any_ok,
                  output_file >>

\* process_directory returns results (line 364, or [] at line 332) and main
\* writes them to the results file when the list is truthy (lines 491-495).
SaveResults ==
  /\ pc = "return"
  /\ output_file' = IF Len(results) > 0
                    THEN [written |-> TRUE, content |-> results]
                    ELSE output_file
  /\ pc' = "done"
  /\ UNCHANGED << args, dir_exists, scan, unique_files, dup_log, i, audio_file,
                  use_preset, converted_file, result, results, tmp_files,
                  unlinked, posts, hooks, sleeps, started, finished, response,
                  convert_outcome, any_ok >>

Next ==
  \/ ListFiles
  \/ TestMode
  \/ ProcessDirectory
  \/ ConvertAudio
  \/ TranscribeUpload
  \/ RecordResult
  \/ SendToWebhook
  \/ RateLimit
  \/ SaveResults

Spec == Init /\ [][Next]_vars

\* Discovery alone: main --list-files over every listing of up to MaxScan files.
InitDiscover ==
  /\ args = [list_files |-> TRUE, test |-> FALSE, no_preset |-> FALSE,
             webhook |-> FALSE, max_files |-> [given |-> FALSE, n |-> 0]]
  /\ \/ dir_exists = TRUE /\ scan \in Listings(Universe, MaxScan)
     \/ dir_exists = FALSE /\ scan = <<>>
  /\ InitRest

NextDiscover == ListFiles

SpecDiscover == InitDiscover /\ [][NextDiscover]_vars

\* ----------------------------------------------------------------- claims

\* A run of process_directory (neither --list-files nor --test).
Batch == ~args.list_files /\ ~args.test

IsPrefix(s, t) == Len(s) <= Len(t) /\ s = SubSeq(t, 1, Len(s))

StrictlySorted(paths) ==
  \A a, b \in 1..Len(paths) : a < b => StrLess(paths[a], paths[b])

\* C1: whenever transcribe_file has returned after a successful normalization,
\* whichever way the upload ended, the normalized temp file does not exist and
\* was unlinked exactly once, and no exception left transcribe_file.
C1_TempFileDeletedOnce ==
  (convert_outcome = "ok" /\ pc # "upload") =>
    /\ pc # "crashed"
    /\ converted_file \notin tmp_files
    /\ unlinked[converted_file] = 1
    /\ \A id \in 1..Len(unlinked) : unlinked[id] <= 1

\* C1 witness: transcribe_file returned after a network error of the upload,
\* and the temp file of the successful normalization is gone.
C1_Witness ==
  /\ pc = "record"
  /\ convert_outcome = "ok"
  /\ response.kind = "RequestException"
  /\ converted_file \notin tmp_files
  /\ unlinked[converted_file] = 1

\* C2: when convert_audio_with_ffmpeg has returned failure (timeout, nonzero
\* exit, transcoder not available), it returned None and the temp file that
\* call created does not exist.
C2_NoTempFileAfterFailure ==
  (convert_outcome \in {"nonzero", "TimeoutExpired", "FileNotFoundError"}) =>
    /\ converted_file = 0
    /\ Len(unlinked) \notin tmp_files

\* C3: in a batch the files whose pipeline began are a prefix of the sorted
\* unique_files, each once; at most one pipeline is open, and only while the
\* run is inside it; no failure ends the batch, which returns only when the
\* pipeline of every file has ended.
C3_EveryFileOnceInOrder ==
  Batch =>
    /\ pc # "crashed"
    /\ StrictlySorted(unique_files)
    /\ IsPrefix(started, unique_files)
    /\ IsPrefix(finished, started)
    /\ Len(started) - Len(finished) \in {0, 1}
    /\ (Len(started) = Len(finished) + 1) <=>
         (pc \in {"upload", "record", "webhook", "next"})
    /\ (pc \in {"return", "done"}) => finished = unique_files

\* C3 witness: a batch of three files ended in which the first file failed
\* normalization or upload and the second and third were transcribed.
C3_Witness ==
  /\ Batch
  /\ pc = "done"
  /\ Len(finished) = 3
  /\ Len(results) = 2
  /\ results[1].file = unique_files[2]
  /\ results[2].file = unique_files[3]

\* C4: with max_files = k >= 0 given and n unique files discovered, the files
\* processed are exactly the first min(k, n) of the sorted list, and no other
\* file is normalized or uploaded.
C4_ExactlyFirstMin ==
  (Batch /\ args.max_files.given) =>
    LET all == get_unique_files(dir_exists, scan).files
        first == SubSeq(all, 1, Min(args.max_files.n, Len(all)))
    IN  /\ IsPrefix(started, first)
        /\ \A k \in 1..Len(posts) : posts[k].file \in Range(first)
        /\ (pc \in {"return", "done"}) => started = first

\* The rank of a lower-cased extension in mp3 < wav < flac < m4a < ogg < wma.
FormatRank(ext) ==
  CASE ext = <<".", "m", "p", "3">> -> 0
    [] ext = <<".", "w", "a", "v">> -> 1
    [] ext = <<".", "f", "l", "a", "c">> -> 2
    [] ext = <<".", "m", "4", "a">> -> 3
    [] ext = <<".", "o", "g", "g">> -> 4
    [] ext = <<".", "w", "m", "a">> -> 5
    [] OTHER -> 6

\* The positions of the scan that hold a supported audio file.
AudioAt == {k \in 1..Len(scan) : FormatRank(Lower(Suffix(scan[k]))) < 6}

\* Position k holds the file of its stem with the lowest rank, the first seen
\* among those of equal rank.
BestAt(k) ==
  \A j \in AudioAt \ {k} :
    Stem(scan[j]) = Stem(scan[k]) =>
      LET rj == FormatRank(Lower(Suffix(scan[j])))
          rk == FormatRank(Lower(Suffix(scan[k])))
      IN  rj > rk \/ (rj = rk /\ j > k)

A_mp3 == <<"a", ".", "m", "p", "3">>
A_wav == <<"a", ".", "w", "a", "v">>
A_flac == <<"a", ".", "f", "l", "a", "c">>

\* C5: get_unique_files returns the sorted list that holds, for each stem among
\* the supported audio files, exactly the file of lowest format rank (first
\* seen on equal rank); no two returned paths share a stem; and for a.mp3,
\* a.wav, a.flac it returns a.mp3 and reports .wav, .flac as dropped.
C5_UniqueFilesAreBestPerStem ==
  (args.list_files /\ pc = "done") =>
    /\ Range(unique_files) = {scan[k] : k \in {j \in AudioAt : BestAt(j)}}
    /\ StrictlySorted(unique_files)
    /\ \A a, b \in 1..Len(unique_files) :
         a # b => Stem(unique_files[a]) # Stem(unique_files[b])
    /\ (Range(scan) = {A_mp3, A_wav, A_flac}) =>
         /\ unique_files = <<A_mp3>>
         /\ dup_log = << [base_name |-> <<"a">>,
                          dropped |-> << <<".", "w", "a", "v">>,
                                         <<".", "f", "l", "a", "c">> >>,
                          using |-> <<".", "m", "p", "3">>] >>

\* C5 witness: discovery ran over a.flac, a.wav, a.mp3 yielded in that order.
C5_Witness ==
  /\ args.list_files
  /\ pc = "done"
  /\ scan = <<A_flac, A_wav, A_mp3>>
  /\ unique_files = <<A_mp3>>

\* C6: a batch ends without raising; the results file is written if and only
\* if some file's remote call succeeded (HTTP 200 with a JSON body), and then
\* holds the returned list; when every file failed the list is empty and
\* nothing is written.
C6_FileIffSomeSuccess ==
  (Batch /\ pc = "done") =>
    /\ output_file.written <=> any_ok
    /\ output_file.written => output_file.content = results
    /\ ~any_ok => results = <<>>

\* C7: send_to_webhook never raises and leaves the result list unchanged: from
\* the call the run goes on to the rate-limit step with results as they were,
\* and every file sent to the webhook keeps its entry.
C7_WebhookLeavesResults ==
  /\ [][pc = "webhook" => (results' = results /\ pc' = "next")]_vars
  /\ [](\A k \in 1..Len(hooks) :
          \E r \in 1..Len(results) : results[r].file = hooks[k].file)
  /\ [][\A r \in 1..Len(results) : Len(results') >= r /\ results'[r] = results[r]]_vars

\* C7 witness: a batch ended whose first file's webhook call failed (a status
\* other than 200, or an exception), the first file's entry is in the saved
\* list, and a second file was processed after it.
C7_Witness ==
  /\ Batch
  /\ pc = "done"
  /\ Len(finished) >= 2
  /\ Len(hooks) >= 1
  /\ hooks[1].file = unique_files[1]
  /\ hooks[1].outcome # "http_200"
  /\ output_file.written
  /\ output_file.content[1].file = unique_files[1]

\* C8: the delays made equal the number of pipelines that have ended while
\* the batch is running, and m-1 (0 when m <= 1) when the batch of m files has
\* ended: one delay after each file but the last, none after the last.
C8_DelaysBetweenFiles ==
  /\ Batch =>
       sleeps = IF pc \in {"return", "done"}
                THEN (IF Len(unique_files) = 0 THEN 0 ELSE Len(unique_files) - 1)
                ELSE Len(finished)
  /\ ~Batch => sleeps = 0

\* C8 witness: a batch of three files ended with two delays, its second file
\* having failed.
C8_Witness ==
  /\ Batch
  /\ pc = "done"
  /\ Len(unique_files) = 3
  /\ sleeps = 2
  /\ Len(results) = 2
  /\ results[2].file = unique_files[3]

\* C9: every transcription request of a run has the shape the raw-parameters
\* flag selects (separate parameters with the flag, URL-embedded without), and
\* the same endpoint path, model, language, response format, insights and
\* anonymize values.
C9_ShapeFollowsFlag ==
  \A k \in 1..Len(posts) :
    /\ posts[k].shape = IF args.no_preset THEN "params" ELSE "url"
    /\ posts[k].path = "/asr/transcribe"
    /\ posts[k].model = "pulse-precision"
    /\ posts[k].language = "pt"
    /\ posts[k].response_format = "diarization"
    /\ posts[k].insights = "json.dumps(insights)"
    /\ posts[k].anonymize = "json.dumps(anonymize)"

\* C10: once process_directory has looked at the result of a file, the file
\* has an entry if and only if its remote call answered HTTP 200 with a JSON
\* body, whatever the body, and the entry holds that body; the entries are in
\* processing order, at most one per file.
C10_EntryIffParsed200 ==
  (Batch /\ pc \in {"webhook", "next"}) =>
    LET has == Len(results) > 0 /\ results[Len(results)].file = audio_file
    IN  /\ has <=> (response.kind = "http_200")
        /\ has => results[Len(results)].transcription = response.body
        /\ \A a, b \in 1..Len(results) :
             a < b => StrLess(results[a].file, results[b].file)

\* The files of the transcription requests sent, and of the webhook POSTs made.
PostedFiles == {posts[k].file : k \in 1..Len(posts)}

HookedFiles == {hooks[k].file : k \in {j \in 1..Len(hooks) : hooks[j].posted}}

\* C11: each file goes through the stages once and in order.  The transcoder
\* runs once per file begun; a transcription POST is made only from the upload
\* stage of a file whose normalization succeeded and that has none yet; a
\* webhook POST is made only with a webhook given, for a file whose remote call
\* answered 200 and that has none yet; a failed normalization or upload leaves
\* the file without the later stages, and the run goes on past it.
C11_StagesOnceInOrder ==
  /\ [](/\ pc # "crashed"
        /\ Len(unlinked) = Len(started)
        /\ \A a, b \in 1..Len(started) : a # b => started[a] # started[b]
        /\ Cardinality(PostedFiles) = Len(posts)
        /\ Cardinality({hooks[k].file : k \in 1..Len(hooks)}) = Len(hooks)
        /\ PostedFiles \subseteq Range(started)
        /\ HookedFiles \subseteq PostedFiles
        /\ HookedFiles \subseteq {results[k].file : k \in 1..Len(results)}
        /\ (hooks # <<>>) => args.webhook
        /\ (convert_outcome \notin {"none", "ok"}) =>
             (audio_file \notin PostedFiles /\ pc # "upload")
        /\ (pc \in {"record", "webhook", "next"} /\ response.kind # "http_200") =>
             (audio_file \notin HookedFiles /\ pc # "webhook"))
  /\ [][posts' # posts =>
          /\ pc = "upload"
          /\ convert_outcome = "ok"
          /\ audio_file \notin PostedFiles
          /\ posts' = Append(posts, posts'[Len(posts')])
          /\ posts'[Len(posts')].file = audio_file]_vars
  /\ [][hooks' # hooks =>
          /\ pc = "webhook"
          /\ args.webhook
          /\ response.kind = "http_200"
          /\ audio_file \in PostedFiles
          /\ \A k \in 1..Len(hooks) : hooks[k].file # audio_file
          /\ hooks' = Append(hooks, hooks'[Len(hooks')])
          /\ hooks'[Len(hooks')].file = audio_file]_vars
  /\ [][pc' # pc =>
          \/ pc = "main" /\ pc' \in {"done", "convert", "return"}
          \/ pc = "convert" /\ pc' = "upload" /\ convert_outcome' = "ok"
          \/ pc = "convert" /\ pc' = AfterTranscribe /\ convert_outcome' # "ok"
          \/ pc = "upload" /\ pc' = AfterTranscribe
          \/ pc = "record" /\ pc' = "webhook" /\ response.kind = "http_200"
          \/ pc = "record" /\ pc' = "next"
          \/ pc = "webhook" /\ pc' = "next"
          \/ pc = "next" /\ pc' \in {"convert", "return"}
          \/ pc = "return" /\ pc' = "done"]_vars

\* C11 witness: a batch with a webhook ended in which the first file failed
\* normalization and got no request, and the second file got one transcription
\* POST and one webhook POST.
C11_Witness ==
  /\ Batch
  /\ args.webhook
  /\ pc = "done"
  /\ Len(finished) >= 2
  /\ Len(posts) = 1
  /\ posts[1].file = unique_files[2]
  /\ Len(hooks) = 1
  /\ hooks[1].posted
  /\ hooks[1].file = unique_files[2]
====
